---- MODULE Spec2Model ----
(***************************************************************************)
(* KamekManager: toolchain detection, path resolution, download-URL        *)
(* resolution and the interactive Python upgrade session.                  *)
(*                                                                         *)
(* Text is modelled as a sequence of tokens.  A token is one character     *)
(* ("/", ".", "3") or an atomic chunk of characters ("Python") that none   *)
(* of the modelled string operations ever splits.                          *)
(***************************************************************************)
EXTENDS Integers, Sequences, FiniteSets, TLC

VARIABLES
    probeIn,    \* SpecProbe: the scenario get_python_executable_info runs in
    probeOut,   \* SpecProbe: what the call returned
    detIn,      \* SpecDetect: the scenario check_python_installation runs in
    detOut,     \* SpecDetect: what the call returned
    pathIn,     \* SpecPath: the raw value, the platform and the directories that exist
    pathOut,    \* SpecPath: what the resolver returned
    urlIn,      \* SpecUrl: the call, its arguments and the network it sees
    urlOut,     \* SpecUrl: what the call returned
    upIn,       \* SpecUpgrade: the machine the upgrade session runs on
    up,         \* SpecUpgrade: the locals of upgrade_python_interactive and where it is
    upLog,      \* SpecUpgrade: commands run, prompts answered, messages printed
    devIn,      \* SpecDevkit: the environment check_devkitpro_installation runs in
    devOut      \* SpecDevkit: what the call returned and printed

vars == <<probeIn, probeOut, detIn, detOut, pathIn, pathOut, urlIn, urlOut, upIn, up, upLog, devIn, devOut>>

(***************************************************************************)
(* Python values                                                           *)
(***************************************************************************)
\* Python's None, and the tag of a call that has not returned yet
None == [tag |-> "None"]
Pending == [tag |-> "pending"]

\* an exception leaving the function
Raised(kind) == [tag |-> "raised", exc |-> kind]

\* a str value
Str(text) == [tag |-> "str", s |-> text]

\* a bool value
Bool(b) == [tag |-> "bool", b |-> b]

(***************************************************************************)
(* Text helpers                                                            *)
(***************************************************************************)
Digits == {"0", "1", "2", "3", "4", "5", "6", "7", "8", "9"}
Whitespace == {" ", "\n"}

IsDigit(t) == t \in Digits

DigitVal(t) ==
    CASE t = "0" -> 0 [] t = "1" -> 1 [] t = "2" -> 2 [] t = "3" -> 3
      [] t = "4" -> 4 [] t = "5" -> 5 [] t = "6" -> 6 [] t = "7" -> 7
      [] t = "8" -> 8 [] t = "9" -> 9

DigitTok(n) ==
    CASE n = 0 -> "0" [] n = 1 -> "1" [] n = 2 -> "2" [] n = 3 -> "3"
      [] n = 4 -> "4" [] n = 5 -> "5" [] n = 6 -> "6" [] n = 7 -> "7"
      [] n = 8 -> "8" [] n = 9 -> "9"

UpperLetters == <<"A", "B", "C", "D", "E", "F", "G", "H", "I", "J", "K", "L", "M",
                  "N", "O", "P", "Q", "R", "S", "T", "U", "V", "W", "X", "Y", "Z">>
LowerLetters == <<"a", "b", "c", "d", "e", "f", "g", "h", "i", "j", "k", "l", "m",
                  "n", "o", "p", "q", "r", "s", "t", "u", "v", "w", "x", "y", "z">>

\* str.isalpha() of one character
IsAlpha(t) == \E i \in 1..26 : t = UpperLetters[i] \/ t = LowerLetters[i]

\* str.lower() of a token: a letter, or one of the chunks the model uses
LowerTok(t) ==
    IF \E i \in 1..26 : t = UpperLetters[i]
    THEN LowerLetters[CHOOSE i \in 1..26 : t = UpperLetters[i]]
    ELSE CASE t \in {"Python", "PYTHON", "python"} -> "python"
           [] t \in {"Jython", "jython"} -> "jython"
           [] t \in {"WindowsApps", "windowsapps"} -> "windowsapps"
           [] t \in {"LATEST", "Latest", "latest"} -> "latest"
           [] OTHER -> t

Lower(s) == [i \in 1..Len(s) |-> LowerTok(s[i])]

\* str.strip(): leading and trailing whitespace removed
RECURSIVE LStrip(_)
LStrip(s) == IF s # <<>> /\ Head(s) \in Whitespace THEN LStrip(Tail(s)) ELSE s

RECURSIVE RStrip(_)
RStrip(s) ==
    IF s # <<>> /\ s[Len(s)] \in Whitespace THEN RStrip(SubSeq(s, 1, Len(s) - 1)) ELSE s

Strip(s) == RStrip(LStrip(s))

\* int(): a run of decimal digits to its value (leading zeros allowed)
RECURSIVE ParseInt(_)
ParseInt(ds) ==
    IF ds = <<>> THEN 0
    ELSE 10 * ParseInt(SubSeq(ds, 1, Len(ds) - 1)) + DigitVal(ds[Len(ds)])

\* str(n) for n >= 0
RECURSIVE Dec(_)
Dec(n) == IF n < 10 THEN <<DigitTok(n)>> ELSE Dec(n \div 10) \o <<DigitTok(n % 10)>>

\* str.split('.') of a text
RECURSIVE SplitDot(_)
SplitDot(s) ==
    IF \E i \in 1..Len(s) : s[i] = "."
    THEN LET i == CHOOSE k \in 1..Len(s) : s[k] = "." /\ \A j \in 1..(k - 1) : s[j] # "."
         IN  <<SubSeq(s, 1, i - 1)>> \o SplitDot(SubSeq(s, i + 1, Len(s)))
    ELSE <<s>>

\* Python's ordering of tuples of ints: lexicographic, a proper prefix is smaller
\* a < b of two tuples of ints
TupleLessMajorOnly(a, b) == a # <<>> /\ b # <<>> /\ a[1] < b[1]
RECURSIVE TupleLess(_, _)
TupleLess(a, b) ==
    IF b = <<>> THEN FALSE
    ELSE IF a = <<>> THEN TRUE
    ELSE IF a[1] < b[1] THEN TRUE
    ELSE IF a[1] > b[1] THEN FALSE
    ELSE TupleLess(Tail(a), Tail(b))

(***************************************************************************)
(* system_utils.run_command                                                *)
(***************************************************************************)
\* proc is what the operating system does with the command:
\*   launch "ok" (the process ran), "not_found" (FileNotFoundError) or
\*   "error" (any other exception of subprocess), its exit code and output.
\* With display_output_live the output is printed and the result carries none.
RunCommand(proc, capture_output, check_return_code, display_output_live) ==
    IF proc.launch # "ok" THEN None
    ELSE IF check_return_code /\ proc.returncode # 0 THEN None
    ELSE [tag |-> "proc",
          returncode |-> proc.returncode,
          has_output |-> capture_output /\ ~display_output_live,
          stdout |-> IF capture_output /\ ~display_output_live THEN proc.stdout ELSE <<>>,
          stderr |-> IF capture_output /\ ~display_output_live THEN proc.stderr ELSE <<>>]

(***************************************************************************)
(* python_env.get_python_executable_info                                   *)
(***************************************************************************)
\* the literal "Python" of the pattern under re.IGNORECASE
IsNameCaseSensitive(t) == t = "Python"
IsName(t) == LowerTok(t) = "python"

\* \d+ : the index after the longest run of digits starting at k
RECURSIVE DigitRunEnd(_, _)
DigitRunEnd(s, k) ==
    IF k <= Len(s) /\ IsDigit(s[k]) THEN DigitRunEnd(s, k + 1) ELSE k

\* r"Python (\d+\.\d+\.\d+)" tried at index i: the index of the last token of
\* group 1, or 0 when the pattern does not match there
MatchEnd(s, i) ==
    LET a == DigitRunEnd(s, i + 2)
        b == DigitRunEnd(s, a + 1)
        c == DigitRunEnd(s, b + 1)
    IN  IF /\ i + 1 <= Len(s)
           /\ IsName(s[i])
           /\ s[i + 1] = " "
           /\ a > i + 2 /\ a <= Len(s) /\ s[a] = "."
           /\ b > a + 1 /\ b <= Len(s) /\ s[b] = "."
           /\ c > b + 1
        THEN c - 1
        ELSE 0

\* re.search: group 1 of the leftmost match, or <<>> when there is none
ReSearchVersion(s) ==
    IF \E i \in 1..Len(s) : MatchEnd(s, i) > 0
    THEN LET i == CHOOSE k \in 1..Len(s) :
                      MatchEnd(s, k) > 0 /\ \A j \in 1..(k - 1) : MatchEnd(s, j) = 0
         IN  SubSeq(s, i + 2, MatchEnd(s, i))
    ELSE <<>>

\* tuple(map(int, version_str.split('.')))
VersionTuple(version_str) ==
    LET parts == SplitDot(version_str)
    IN  [k \in 1..Len(parts) |-> ParseInt(parts[k])]

\* "windowsapps" in str(resolved_path).lower()
IsStorePathNever(resolved) == FALSE
IsStorePath(resolved) == \E k \in 1..Len(resolved) : LowerTok(resolved[k]) = "windowsapps"

\* w is the world the call sees: is_file (Path.is_file()), proc (the run of
\* "<exe> --version"), resolve_raises (Path.resolve() fails), resolved (the
\* resolved path) and os_name
GetPythonExecutableInfo(python_exe_path_str, w) ==
    IF python_exe_path_str = <<>> THEN None
    ELSE IF ~w.is_file THEN None
    ELSE LET result == RunCommand(w.proc, TRUE, FALSE, FALSE)
         IN  IF result # None /\ result.returncode = 0
             THEN LET output == Strip(result.stdout) \o Strip(result.stderr)
                      version_str == ReSearchVersion(output)
                  IN  IF version_str # <<>>
                      THEN IF w.resolve_raises THEN None
                           ELSE [tag |-> "info",
                                 executable |-> w.resolved,
                                 version_str |-> version_str,
                                 version_tuple |-> VersionTuple(version_str),
                                 is_windows_store_app |->
                                     w.os_name = "nt" /\ IsStorePath(w.resolved)]
                      ELSE None
             ELSE None

(***************************************************************************)
(* SpecProbe: get_python_executable_info over probe scenarios              *)
(***************************************************************************)
ProbeFaults == {"none", "empty_path", "not_file", "launch_not_found", "launch_error",
                "nonzero_exit", "resolve_raises"}
ProbeNames == {"Python", "python", "PYTHON", "Jython"}
\* the shapes of version output: the first five hold Name <maj>.<min>.<patch>
MatchingFormats == {"full", "suffix", "prefixed", "leadzero", "fourth"}
OtherFormats == {"two", "nospace", "newline_sep", "noname", "empty", "letters"}
ProbeMajors == {2, 3, 10}
ProbeMinors == {0, 8}
ProbePatches == {0, 18}
ProbePlaces == {"posix", "nt", "nt_store"}

VersionText(maj, mn, pt) == Dec(maj) \o <<".">> \o Dec(mn) \o <<".">> \o Dec(pt)

\* what the interpreter prints for a format
BuildOutput(fmt, name, maj, mn, pt) ==
    CASE fmt = "full" -> <<name, " ">> \o VersionText(maj, mn, pt)
      [] fmt = "suffix" -> <<name, " ">> \o VersionText(maj, mn, pt) \o <<"+", " ", "x">>
      [] fmt = "prefixed" -> <<"x", name, " ">> \o VersionText(maj, mn, pt)
      [] fmt = "leadzero" ->
            <<name, " ", "0">> \o Dec(maj) \o <<".", "0">> \o Dec(mn) \o <<".", "0">> \o Dec(pt)
      [] fmt = "fourth" -> <<name, " ">> \o VersionText(maj, mn, pt) \o <<".", "5">>
      [] fmt = "two" -> <<name, " ">> \o Dec(maj) \o <<".">> \o Dec(mn)
      [] fmt = "nospace" -> <<name>> \o VersionText(maj, mn, pt)
      [] fmt = "newline_sep" -> <<name, "\n">> \o VersionText(maj, mn, pt)
      [] fmt = "noname" -> VersionText(maj, mn, pt)
      [] fmt = "empty" -> <<>>
      [] fmt = "letters" -> <<name, " ", "x", ".", "x", ".", "x">>

\* the world of one probe call
ProbeWorld(sc) ==
    LET out == BuildOutput(sc.fmt, sc.name, sc.maj, sc.mn, sc.pt) \o <<"\n">>
    IN  [is_file |-> sc.fault # "not_file",
         proc |-> [launch |-> CASE sc.fault = "launch_not_found" -> "not_found"
                                [] sc.fault = "launch_error" -> "error"
                                [] OTHER -> "ok",
                   returncode |-> IF sc.fault = "nonzero_exit" THEN 1 ELSE 0,
                   stdout |-> IF sc.stream = "stdout" THEN out ELSE <<>>,
                   stderr |-> IF sc.stream = "stderr" THEN out ELSE <<>>],
         resolve_raises |-> sc.fault = "resolve_raises",
         resolved |-> IF sc.place = "nt_store"
                      THEN <<"C:", "/", "WindowsApps", "/", "python.exe">>
                      ELSE <<"/", "usr", "/", "python.exe">>,
         os_name |-> IF sc.place = "posix" THEN "posix" ELSE "nt"]

ProbePath(sc) == IF sc.fault = "empty_path" THEN <<>> ELSE <<"python.lnk">>

ProbeScenarios ==
    [fault : ProbeFaults, fmt : MatchingFormats \cup OtherFormats, name : ProbeNames,
     maj : ProbeMajors, mn : ProbeMinors, pt : ProbePatches,
     stream : {"stdout", "stderr"}, place : ProbePlaces]

InitProbe ==
    /\ probeIn \in ProbeScenarios
    /\ probeOut = Pending
    /\ detIn = None /\ detOut = None
    /\ pathIn = None /\ pathOut = None
    /\ urlIn = None /\ urlOut = None
    /\ upIn = None /\ up = None /\ upLog = None
    /\ devIn = None /\ devOut = None

Probe ==
    /\ probeIn # None /\ probeOut = Pending
    /\ probeOut' = GetPythonExecutableInfo(ProbePath(probeIn), ProbeWorld(probeIn))
    /\ UNCHANGED <<probeIn, detIn, detOut, pathIn, pathOut, urlIn, urlOut, upIn, up, upLog, devIn, devOut>>

NextProbe == Probe

SpecProbe == InitProbe /\ [][NextProbe]_vars

\* the scenarios whose output holds Name <maj>.<min>.<patch>
ProbeOutputMatches(sc) == sc.fmt \in MatchingFormats /\ sc.name \in {"Python", "python", "PYTHON"}

\* the probe ran: the target is a file and the process was launched
ProbeHasOutput(sc) == sc.fault \notin {"empty_path", "not_file", "launch_not_found", "launch_error"}

\* C4 as stated: every probe output that matches Name <maj>.<min>.<patch>
\* yields a descriptor with exactly that triple, every other output and every
\* target that cannot be run yields None, and nothing is raised.
C4_MatchingOutputAlwaysYieldsTriple ==
    probeOut # Pending =>
        IF ProbeHasOutput(probeIn) /\ ProbeOutputMatches(probeIn)
        THEN /\ probeOut.tag = "info"
             /\ probeOut.version_tuple = <<probeIn.maj, probeIn.mn, probeIn.pt>>
        ELSE probeOut = None

\* C4 amended: a probe that exits with status 0, whose merged output holds
\* Name <maj>.<min>.<patch> (name in any case, anywhere in the output) and whose
\* path resolves yields a descriptor with exactly (maj, min, patch); a nonzero
\* exit status, an output without a match, an empty or non-file target, a launch
\* failure and a failing path resolution all yield None; nothing is raised.
C4_ProbeYieldsTripleOrNone ==
    probeOut # Pending =>
        IF probeIn.fault = "none" /\ ProbeOutputMatches(probeIn)
        THEN /\ probeOut.tag = "info"
             /\ probeOut.version_tuple = <<probeIn.maj, probeIn.mn, probeIn.pt>>
        ELSE probeOut = None

C4_Witness ==
    /\ probeOut.tag = "info"
    /\ probeIn.name = "PYTHON"
    /\ probeIn.fmt = "prefixed"
    /\ probeIn.stream = "stderr"
    /\ probeOut.version_tuple = <<10, 8, 18>>

(***************************************************************************)
(* python_env.check_python_installation                                    *)
(***************************************************************************)
\* info["version_tuple"][0] == 2
IsMajorTwoWrongIndex(version_tuple) == version_tuple[2] = 2
IsMajorTwo(version_tuple) == version_tuple[1] = 2

\* env is what the call reads besides its arguments: sys_executable,
\* which_python (shutil.which("python"), <<>> when there is none) and
\* world, the probe world of every path.  An absent or empty specific_exe
\* is <<>>.  The result holds the returned value and the messages printed.
CheckPythonInstallation(min_version, specific_exe, env) ==
    LET python_to_check == IF specific_exe # <<>> THEN specific_exe ELSE env.sys_executable
        info == GetPythonExecutableInfo(python_to_check, env.world[python_to_check])
        python_in_path == env.which_python
        python_cmd_info == GetPythonExecutableInfo(python_in_path, env.world[python_in_path])
    IN  IF python_to_check = <<>> THEN [ret |-> None, log |-> {"no_executable"}]
        ELSE IF info = None THEN [ret |-> None, log |-> {}]
        ELSE IF IsMajorTwo(info.version_tuple) THEN [ret |-> None, log |-> {"python2"}]
        ELSE IF TupleLess(info.version_tuple, min_version)
             THEN [ret |-> None, log |-> {"too_old"}]
        ELSE [ret |-> info,
              log |-> (IF info.is_windows_store_app THEN {"store_warning"} ELSE {})
                      \cup
                      (IF /\ specific_exe = <<>>
                          /\ python_in_path # <<>>
                          /\ env.world[env.sys_executable].resolved
                                 # env.world[python_in_path].resolved
                          /\ python_cmd_info # None
                          /\ IsMajorTwo(python_cmd_info.version_tuple)
                       THEN {"path_python2_warning"} ELSE {})]

(***************************************************************************)
(* SpecDetect: check_python_installation over detection scenarios          *)
(***************************************************************************)
MIN_PYTHON_VERSION == <<3, 8>>
MinVersions == {<<0, 0>>, <<2>>, <<2, 7, 18>>, MIN_PYTHON_VERSION, <<3, 8, 10>>, <<3, 9>>, <<4, 0>>}
DetectFaults == {"none", "not_file", "nonzero_exit"}
DetectMajors == {2, 3, 4}
DetectMinors == {0, 7, 8}
DetectPatches == {0, 10}
\* how the target is named: as specific_exe, as sys.executable, or not at all
DetectHows == {"specific", "sys", "no_sys"}
\* what "python" on the search path is
DetectWhich == {"none", "same", "python2", "python3"}

DetectScenarios ==
    [fault : DetectFaults, maj : DetectMajors, mn : DetectMinors, pt : DetectPatches,
     min_version : MinVersions, how : DetectHows, place : ProbePlaces, which : DetectWhich]

DetectTarget == <<"py.exe">>
DetectPathPython == <<"path_python">>
DetectPaths == {<<>>, DetectTarget, DetectPathPython}

DetectProbeScenario(sc) ==
    [fault |-> sc.fault, fmt |-> "full", name |-> "Python", maj |-> sc.maj, mn |-> sc.mn,
     pt |-> sc.pt, stream |-> "stdout", place |-> sc.place]

\* the probe world of "python" on the search path
DetectWhichWorld(sc) ==
    IF sc.which = "same" THEN ProbeWorld(DetectProbeScenario(sc))
    ELSE [ProbeWorld([fault |-> "none", fmt |-> "full", name |-> "Python",
                      maj |-> IF sc.which = "python2" THEN 2 ELSE 3, mn |-> 7, pt |-> 18,
                      stream |-> "stderr", place |-> "posix"])
          EXCEPT !.resolved = <<"/", "bin", "/", "python">>]

DetectEnv(sc) ==
    [sys_executable |-> IF sc.how = "sys" THEN DetectTarget ELSE <<>>,
     which_python |-> IF sc.which = "none" THEN <<>> ELSE DetectPathPython,
     world |-> [p \in DetectPaths |->
                  CASE p = DetectTarget -> ProbeWorld(DetectProbeScenario(sc))
                    [] p = DetectPathPython -> DetectWhichWorld(sc)
                    [] OTHER -> ProbeWorld([DetectProbeScenario(sc) EXCEPT !.fault = "not_file"])]]

InitDetect ==
    /\ detIn \in DetectScenarios
    /\ detOut = Pending
    /\ probeIn = None /\ probeOut = None
    /\ pathIn = None /\ pathOut = None
    /\ urlIn = None /\ urlOut = None
    /\ upIn = None /\ up = None /\ upLog = None
    /\ devIn = None /\ devOut = None

Detect ==
    /\ detIn # None /\ detOut = Pending
    /\ detOut' = CheckPythonInstallation(
                     detIn.min_version,
                     IF detIn.how = "specific" THEN DetectTarget ELSE <<>>,
                     DetectEnv(detIn))
    /\ UNCHANGED <<probeIn, probeOut, detIn, pathIn, pathOut, urlIn, urlOut, upIn, up, upLog, devIn, devOut>>

NextDetect == Detect

SpecDetect == InitDetect /\ [][NextDetect]_vars

\* the probed interpreter of the scenario reports major version 2
DetectProbedMajorTwo(sc) == sc.fault = "none" /\ sc.how # "no_sys" /\ sc.maj = 2

\* C3: an interpreter whose probed major version is 2 is rejected for every
\* min_version, (0,0) and values at or below (2,x,y) included, and by the
\* major-version test, not by the ordering comparison with min_version.
C3_MajorTwoAlwaysRejected ==
    (detOut # Pending /\ DetectProbedMajorTwo(detIn)) =>
        /\ detOut.ret = None
        /\ detOut.log = {"python2"}

C3_Witness ==
    /\ detOut # Pending
    /\ DetectProbedMajorTwo(detIn)
    /\ detIn.min_version = <<0, 0>>
    /\ detIn.mn = 7
    /\ detOut.ret = None

(***************************************************************************)
(* pathlib and the file system                                             *)
(***************************************************************************)
\* str.startswith
StartsWith(s, prefix) == Len(s) >= Len(prefix) /\ SubSeq(s, 1, Len(prefix)) = prefix

\* str.replace("\\", "/")
ReplaceBackslash(s) == [i \in 1..Len(s) |-> IF s[i] = "\\" THEN "/" ELSE s[i]]

\* str.lstrip("/")
RECURSIVE LStripSlash(_)
LStripSlash(s) == IF s # <<>> /\ Head(s) = "/" THEN LStripSlash(Tail(s)) ELSE s

\* repeated separators collapse to one
RECURSIVE CollapseSlashes(_)
CollapseSlashes(s) ==
    IF Len(s) < 2 THEN s
    ELSE IF s[1] = "/" /\ s[2] = "/" THEN CollapseSlashes(Tail(s))
    ELSE <<s[1]>> \o CollapseSlashes(Tail(s))

\* a trailing separator is dropped, except from a root ("/", "c:/")
DropTrailingSlash(s) ==
    IF Len(s) > 1 /\ s[Len(s)] = "/" /\ ~(Len(s) = 3 /\ s[2] = ":")
    THEN SubSeq(s, 1, Len(s) - 1)
    ELSE s

\* pathlib.Path(text): the path as pathlib normalises it, written with "/"
\* (on Windows both separators are separators)
PathOf(text, os) ==
    [tag |-> "path",
     s |-> DropTrailingSlash(CollapseSlashes(
               IF os = "nt" THEN ReplaceBackslash(text) ELSE text))]

\* base / sub_path for a relative sub_path
JoinPath(base, sub_path, os) == PathOf(base.s \o <<"/">> \o sub_path, os)

\* str(path): Windows writes the separators as backslashes
StrOfPath(path, os) ==
    IF os = "nt" THEN [i \in 1..Len(path.s) |-> IF path.s[i] = "/" THEN "\\" ELSE path.s[i]]
    ELSE path.s

\* the name the file system knows a path by: Windows ignores case
NameKey(name, os) == IF os = "nt" THEN Lower(name) ELSE name
PathKey(path, os) == NameKey(path.s, os)

\* Path.is_dir(), dirs being the directories that exist
IsDir(path, os, dirs) == \E d \in dirs : NameKey(d, os) = PathKey(path, os)

\* == of two paths of one platform
SamePath(a, b, os) == a # None /\ b # None /\ PathKey(a, os) = PathKey(b, os)

(***************************************************************************)
(* toolchain_setup._get_actual_devkitpro_windows_path                      *)
(***************************************************************************)
OptDevkitpro == <<"/", "o", "p", "t", "/", "d", "e", "v", "k", "i", "t", "p", "r", "o">>
DriveLetters == <<"D", "E", "F", "G">>
DevkitProOn(drive_letter) == PathOf(<<drive_letter, ":", "\\">> \o <<"d", "e", "v", "k", "i", "t", "P", "r", "o">>, "nt")

\* os.name == 'nt'
IsWindowsInverted(os) == os # "nt"
IsWindows(os) == os = "nt"

\* C:\devkitPro when it is a directory, else the first of D: to G: that has
\* one, else None
WindowsBaseUnchecked(dirs) == DevkitProOn("C")
WindowsBase(dirs) ==
    IF IsDir(DevkitProOn("C"), "nt", dirs) THEN DevkitProOn("C")
    ELSE IF \E i \in 1..Len(DriveLetters) : IsDir(DevkitProOn(DriveLetters[i]), "nt", dirs)
    THEN DevkitProOn(DriveLetters[
             CHOOSE i \in 1..Len(DriveLetters) :
                 /\ IsDir(DevkitProOn(DriveLetters[i]), "nt", dirs)
                 /\ \A j \in 1..(i - 1) : ~IsDir(DevkitProOn(DriveLetters[j]), "nt", dirs)])
    ELSE None

GetActualDevkitproWindowsPath(original_env_path, os, dirs) ==
    IF IsWindows(os)
    THEN LET env_path == ReplaceBackslash(original_env_path)
         IN  IF StartsWith(Lower(env_path), OptDevkitpro)
             THEN LET windows_base == WindowsBase(dirs)
                      sub_path == LStripSlash(SubSeq(env_path, Len(OptDevkitpro) + 1,
                                                     Len(env_path)))
                  IN  IF windows_base = None THEN None
                      ELSE IF sub_path # <<>> THEN JoinPath(windows_base, sub_path, "nt")
                      ELSE windows_base
             ELSE IF StartsWith(env_path, <<"/">>)
             THEN IF Len(env_path) > 2 /\ env_path[3] = "/" /\ IsAlpha(env_path[2])
                  THEN PathOf(<<env_path[2], ":">> \o SubSeq(env_path, 3, Len(env_path)), "nt")
                  ELSE None
             ELSE PathOf(env_path, "nt")
    ELSE PathOf(original_env_path, os)

(***************************************************************************)
(* SpecPath: the resolver over raw values, platforms and file systems      *)
(***************************************************************************)
RawValues == {
    <<"/", "o", "p", "t", "/", "d", "e", "v", "k", "i", "t", "p", "r", "o">>,
    <<"/", "o", "p", "t", "/", "d", "e", "v", "k", "i", "t", "p", "r", "o", "/">>,
    <<"/", "o", "p", "t", "/", "d", "e", "v", "k", "i", "t", "p", "r", "o", "/", "d", "e", "v", "k", "i", "t", "P", "P", "C">>,
    <<"/", "o", "p", "t", "/", "d", "e", "v", "k", "i", "t", "p", "r", "o", "X">>,
    <<"/", "O", "P", "T", "/", "D", "e", "v", "k", "i", "t", "P", "r", "o">>,
    <<"\\", "o", "p", "t", "\\", "d", "e", "v", "k", "i", "t", "p", "r", "o", "\\", "d", "e", "v", "k", "i", "t", "P", "P", "C">>,
    <<"/", "c", "/", "d", "e", "v", "k", "i", "t", "P", "r", "o">>,
    <<"/", "d", "/", "d", "e", "v", "k", "i", "t", "P", "r", "o">>,
    <<"/", "c">>,
    <<"/", "u", "s", "r", "/", "l", "i", "b">>,
    <<"/", "1", "/", "x">>,
    <<"C", ":", "\\", "d", "e", "v", "k", "i", "t", "P", "r", "o">>,
    <<"C", ":", "/", "d", "e", "v", "k", "i", "t", "P", "r", "o", "/">>,
    <<"D", ":", "\\", "d", "e", "v", "k", "i", "t", "P", "r", "o">>,
    <<"C", ":", "\\", "d", "e", "v", "k", "i", "t", "P", "r", "o", "\\", "d", "e", "v", "k", "i", "t", "P", "P", "C">>,
    <<"d", "e", "v", "k", "i", "t", "P", "r", "o">>,
    <<"C", ":", "\\", "n", "o", "w", "h", "e", "r", "e">>}

\* the directories a file system may hold, by the name it knows them by
DirUniverse == {
    <<"C", ":", "/", "d", "e", "v", "k", "i", "t", "P", "r", "o">>,
    <<"C", ":", "/", "d", "e", "v", "k", "i", "t", "P", "r", "o", "/", "d", "e", "v", "k", "i", "t", "P", "P", "C">>,
    <<"D", ":", "/", "d", "e", "v", "k", "i", "t", "P", "r", "o">>,
    <<"/", "o", "p", "t", "/", "d", "e", "v", "k", "i", "t", "p", "r", "o">>,
    <<"/", "c", "/", "d", "e", "v", "k", "i", "t", "P", "r", "o">>,
    <<"d", "e", "v", "k", "i", "t", "P", "r", "o">>}

\* a directory exists only inside an existing directory
FileSystems ==
    {d \in SUBSET DirUniverse :
        <<"C", ":", "/", "d", "e", "v", "k", "i", "t", "P", "r", "o", "/", "d", "e", "v", "k", "i", "t", "P", "P", "C">> \in d => <<"C", ":", "/", "d", "e", "v", "k", "i", "t", "P", "r", "o">> \in d}

InitPath ==
    /\ pathIn \in [raw : RawValues, os : {"nt", "posix"}, dirs : FileSystems]
    /\ pathOut = Pending
    /\ probeIn = None /\ probeOut = None
    /\ detIn = None /\ detOut = None
    /\ urlIn = None /\ urlOut = None
    /\ upIn = None /\ up = None /\ upLog = None
    /\ devIn = None /\ devOut = None

ResolvePath ==
    /\ pathIn # None /\ pathOut = Pending
    /\ pathOut' = GetActualDevkitproWindowsPath(pathIn.raw, pathIn.os, pathIn.dirs)
    /\ UNCHANGED <<probeIn, probeOut, detIn, detOut, pathIn, urlIn, urlOut, upIn, up, upLog, devIn, devOut>>

NextPath == ResolvePath

SpecPath == InitPath /\ [][NextPath]_vars

\* the raw values of RawValues that begin with /opt/devkitpro, in any case and
\* with either separator
OptStyleValues == {
    <<"/", "o", "p", "t", "/", "d", "e", "v", "k", "i", "t", "p", "r", "o">>,
    <<"/", "o", "p", "t", "/", "d", "e", "v", "k", "i", "t", "p", "r", "o", "/">>,
    <<"/", "o", "p", "t", "/", "d", "e", "v", "k", "i", "t", "p", "r", "o", "/", "d", "e", "v", "k", "i", "t", "P", "P", "C">>,
    <<"/", "o", "p", "t", "/", "d", "e", "v", "k", "i", "t", "p", "r", "o", "X">>,
    <<"/", "O", "P", "T", "/", "D", "e", "v", "k", "i", "t", "P", "r", "o">>,
    <<"\\", "o", "p", "t", "\\", "d", "e", "v", "k", "i", "t", "p", "r", "o", "\\", "d", "e", "v", "k", "i", "t", "P", "P", "C">>}

\* the other raw values that begin with a separator
SlashStyleValues == {
    <<"/", "c", "/", "d", "e", "v", "k", "i", "t", "P", "r", "o">>,
    <<"/", "d", "/", "d", "e", "v", "k", "i", "t", "P", "r", "o">>,
    <<"/", "c">>,
    <<"/", "u", "s", "r", "/", "l", "i", "b">>,
    <<"/", "1", "/", "x">>}

PathResolved == pathOut # Pending

RawExists == IsDir(PathOf(pathIn.raw, pathIn.os), pathIn.os, pathIn.dirs)

\* the path lies at or below the directory base
AtOrUnder(path, base) ==
    \/ Lower(path.s) = Lower(base.s)
    \/ StartsWith(Lower(path.s), Lower(base.s) \o <<"/">>)

\* C5 as stated: the resolver returns None or a path that exists.
C5_ResolverNeverReturnsNonexistent ==
    (PathResolved /\ pathOut # None) => IsDir(pathOut, pathIn.os, pathIn.dirs)

\* C5 amended: the resolver checks existence only of the installation root the
\* /opt/devkitpro rule chooses: on Windows a value of that style resolves to a
\* path at or below an existing <drive>:\devkitPro directory, or to None when
\* no drive C: to G: has one.  Every other returned path (the subpath below the
\* root, a /<letter>/ rewrite, a value passed through) is returned without an
\* existence check, and None is returned only for values that begin with a
\* separator on Windows.
C5_OnlyInstallationRootChecked ==
    PathResolved =>
        /\ (pathIn.os = "nt" /\ pathIn.raw \in OptStyleValues) =>
              IF \E l \in {"C", "D", "E", "F", "G"} : IsDir(DevkitProOn(l), "nt", pathIn.dirs)
              THEN /\ pathOut # None
                   /\ \E l \in {"C", "D", "E", "F", "G"} :
                         /\ IsDir(DevkitProOn(l), "nt", pathIn.dirs)
                         /\ AtOrUnder(pathOut, DevkitProOn(l))
              ELSE pathOut = None
        /\ pathOut = None =>
              pathIn.os = "nt" /\ pathIn.raw \in OptStyleValues \cup SlashStyleValues

C5_Witness ==
    /\ PathResolved
    /\ pathIn.os = "nt"
    /\ pathIn.raw = <<"/", "o", "p", "t", "/", "d", "e", "v", "k", "i", "t", "p", "r", "o", "/", "d", "e", "v", "k", "i", "t", "P", "P", "C">>
    /\ pathOut = PathOf(<<"D", ":", "/", "d", "e", "v", "k", "i", "t", "P", "r", "o", "/", "d", "e", "v", "k", "i", "t", "P", "P", "C">>, "nt")
    /\ ~IsDir(pathOut, "nt", pathIn.dirs)
    /\ ~IsDir(DevkitProOn("C"), "nt", pathIn.dirs)

\* C6 as stated: a raw value that is an existing path is returned unrewritten,
\* so resolving the result again changes nothing, also when the value begins
\* with a prefix a rewrite rule matches.
C6_ExistingPathReturnedUnrewritten ==
    (PathResolved /\ RawExists) =>
        /\ SamePath(pathOut, PathOf(pathIn.raw, pathIn.os), pathIn.os)
        /\ GetActualDevkitproWindowsPath(StrOfPath(pathOut, pathIn.os), pathIn.os, pathIn.dirs)
               = pathOut

\* C6 amended: a raw value that is an existing path and that no rewrite rule
\* applies to (on Windows a value that does not begin with a separator, on any
\* other platform every value) is returned unrewritten, and resolving the
\* result again yields the same result.  On Windows an existing path that
\* begins with a separator is rewritten or unresolved.
C6_UnmatchedExistingPathUnrewritten ==
    (/\ PathResolved
     /\ RawExists
     /\ (pathIn.os = "nt" => pathIn.raw \notin OptStyleValues \cup SlashStyleValues)) =>
        /\ SamePath(pathOut, PathOf(pathIn.raw, pathIn.os), pathIn.os)
        /\ GetActualDevkitproWindowsPath(StrOfPath(pathOut, pathIn.os), pathIn.os, pathIn.dirs)
               = pathOut

C6_Witness ==
    /\ PathResolved
    /\ RawExists
    /\ pathIn.os = "posix"
    /\ pathIn.raw = OptDevkitpro
    /\ pathOut = PathOf(OptDevkitpro, "posix")

(***************************************************************************)
(* common/constants.py                                                     *)
(***************************************************************************)
\* the names the module assigns
ConstantNames ==
    {"APP_NAME", "APP_VERSION", "MIN_PYTHON_VERSION", "PYTHON_INSTALLER_URL_WIN",
     "DEVKITPRO_UPDATER_URL", "DIR_NAME_GAME_SOURCES", "DIR_NAME_MODULES",
     "DIR_NAME_BUILD_OUTPUT", "DIR_NAME_COMPILERS_TOOLS", "PIP_PACKAGES"}

PYTHON_INSTALLER_URL_WIN ==
    <<"[", "https://", "www.python.org/ftp/python/3.13.3", "/", "python-3.13.3-amd64.exe", "]",
      "(", "https://", "www.python.org/ftp/python/3.13.3", "/", "python-3.13.3-amd64.exe", ")">>

\* constants.<name>: the value, or AttributeError for a name the module lacks
ConstantAttr(name) ==
    IF name \notin ConstantNames THEN Raised("AttributeError")
    ELSE IF name = "PYTHON_INSTALLER_URL_WIN" THEN Str(PYTHON_INSTALLER_URL_WIN)
    ELSE Str(<<name>>)

(***************************************************************************)
(* python_env._get_latest_python_version_from_api                          *)
(***************************************************************************)
\* The network is a record: requests_available, bs4_available, api (how the
\* request to endoflife.date ends: "request_error", "bad_json", "not_list" or
\* "list"), cycles (the list) and scrape (how scraping python.org ends).
\* A cycle is [eol, latest]: eol is "false", "true" (the JSON booleans),
\* "date" (a date string) or "absent"; latest is the version text, <<>> when
\* the cycle has no "latest" key.

\* the index of the cycle the loop stops at, 0 when it runs to the end
SelectedCycle(cycles) ==
    IF \E i \in 1..Len(cycles) : cycles[i].eol \in {"false", "date"}
    THEN CHOOSE i \in 1..Len(cycles) :
             /\ cycles[i].eol \in {"false", "date"}
             /\ \A j \in 1..(i - 1) : cycles[j].eol \notin {"false", "date"}
    ELSE 0

GetLatestPythonVersionFromApi(net) ==
    IF ~net.requests_available THEN None
    ELSE IF net.api \in {"request_error", "bad_json"} THEN None
    ELSE IF net.api = "list" /\ net.cycles # <<>>
    THEN LET k == SelectedCycle(net.cycles)
         IN  IF k # 0 /\ net.cycles[k].latest # <<>>
             THEN Str(net.cycles[k].latest)
             ELSE None
    ELSE None

(***************************************************************************)
(* python_env.get_latest_python_download_url                               *)
(***************************************************************************)
BaseFtpUrl == <<"https://", "www.python.org/ftp/python">>

\* return constants.PYTHON_INSTALLER_URL_WIN_FALLBACK.  Inside the try block the
\* AttributeError is caught by "except Exception", whose handler evaluates
\* the same attribute and raises again.
ReturnFallback == ConstantAttr("PYTHON_INSTALLER_URL_WIN_FALLBACK")

\* the installer link scraping finds on the release page
ScrapedUrl(os_filter) ==
    <<"https://", "www.python.org/ftp/python/3.14.0", "/">>
        \o (IF os_filter = "macos" THEN <<"python-3.14.0-macos11.pkg">>
            ELSE IF os_filter = "win32" THEN <<"python-3.14.0.exe">>
            ELSE <<"python-3.14.0-amd64.exe">>)

DirectFilename(os_filter, latest_version_str) ==
    CASE os_filter = "win64" -> <<"python-">> \o latest_version_str \o <<"-amd64.exe">>
      [] os_filter = "win32" -> <<"python-">> \o latest_version_str \o <<".exe">>
      [] os_filter = "macos" -> <<"python-">> \o latest_version_str \o <<"-macos11.pkg">>
      [] OTHER -> <<>>

ScrapeDownloadUrl(os_filter, net) ==
    IF ~net.bs4_available \/ ~net.requests_available THEN ReturnFallback
    ELSE CASE net.scrape = "request_error" -> ReturnFallback
           [] net.scrape = "no_button" -> ReturnFallback
           [] net.scrape = "bad_href" -> ReturnFallback
           [] net.scrape = "page_error" -> ReturnFallback
           [] os_filter \notin {"win64", "win32", "macos"} -> ReturnFallback
           [] net.scrape = "found" -> Str(ScrapedUrl(os_filter))
           [] OTHER -> ReturnFallback

GetLatestPythonDownloadUrl(os_filter, net) ==
    LET latest_version_str == GetLatestPythonVersionFromApi(net)
    IN  IF latest_version_str # None
        THEN IF os_filter \notin {"win64", "win32", "macos"} THEN ReturnFallback
             ELSE Str(BaseFtpUrl \o <<"/">> \o latest_version_str.s \o <<"/">>
                      \o DirectFilename(os_filter, latest_version_str.s))
        ELSE ScrapeDownloadUrl(os_filter, net)

(***************************************************************************)
(* python_env.install_python_interactive                                   *)
(***************************************************************************)
MangledBaseFtpUrl ==
    <<"[", "https://", "www.python.org/ftp/python", "]",
      "(", "https://", "www.python.org/ftp/python", ")">>

\* lines 236 to 249: the installer URL for the token
InstallerUrl(version_or_url, net) ==
    IF Lower(version_or_url) = <<"latest">> THEN GetLatestPythonDownloadUrl("win64", net)
    ELSE IF version_or_url # <<>> /\ version_or_url[1] \in {"http://", "https://"}
    THEN Str(version_or_url)
    ELSE Str(MangledBaseFtpUrl \o <<"/">> \o version_or_url \o <<"/", "python-">>
                 \o version_or_url \o <<"-amd64.exe">>)

\* url.split('/')[-1]
RECURSIVE LastSegment(_)
LastSegment(url) ==
    IF \E i \in 1..Len(url) : url[i] = "/"
    THEN LastSegment(Tail(url))
    ELSE url

\* the file-name endings of the model that end in .exe, .pkg or .dmg
InstallerEndings ==
    {"-amd64.exe", ".exe", "-macos11.pkg", "py.exe",
     "python-3.14.0-amd64.exe", "python-3.14.0.exe", "python-3.14.0-macos11.pkg"}

InstallerName(version_or_url, installer_url) ==
    LET installer_name == LastSegment(installer_url)
    IN  IF installer_name # <<>> /\ installer_name[Len(installer_name)] \in InstallerEndings
        THEN installer_name
        ELSE <<"python_installer_">>
                 \o [i \in 1..Len(version_or_url) |->
                        IF version_or_url[i] = "." THEN "_" ELSE version_or_url[i]]
                 \o <<".exe">>

\* ext is what lies outside the program: download_ok (download_file returns
\* True) and os_name; an exception of os.startfile is caught.  The result
\* holds the returned value (or the exception), the URL resolved, the file name
\* and whether a download and an installer launch were started.
InstallPythonInteractive(version_or_url, net, ext) ==
    LET installer_url == InstallerUrl(version_or_url, net)
        nothing == [url |-> None, name |-> <<>>, download_started |-> FALSE,
                    launch_started |-> FALSE]
    IN  IF installer_url.tag = "raised" THEN [ret |-> installer_url] @@ nothing
        ELSE IF installer_url = None \/ installer_url.s = <<>>
        THEN [ret |-> Bool(FALSE)] @@ nothing
        ELSE LET name == InstallerName(version_or_url, installer_url.s)
             IN  IF ~ext.download_ok
                 THEN [ret |-> Bool(FALSE), url |-> installer_url,
                       name |-> name, download_started |-> TRUE, launch_started |-> FALSE]
                 ELSE [ret |-> Bool(TRUE), url |-> installer_url,
                       name |-> name, download_started |-> TRUE,
                       launch_started |-> ext.os_name = "nt"]

(***************************************************************************)
(* SpecUrl: download-URL resolution over tokens and networks               *)
(***************************************************************************)
\* the longest list of release cycles
MaxCycles == 3

\* the versions of the cycles as the API lists them, newest first
CycleVersions ==
    <<VersionText(3, 13, 3), VersionText(3, 12, 4), VersionText(3, 11, 9),
      VersionText(3, 10, 14), VersionText(3, 9, 19)>>

\* what a cycle can say: its eol field and whether it has a "latest" key
CycleKinds ==
    {[eol |-> "false", has_latest |-> TRUE], [eol |-> "true", has_latest |-> TRUE],
     [eol |-> "date", has_latest |-> TRUE], [eol |-> "absent", has_latest |-> TRUE],
     [eol |-> "false", has_latest |-> FALSE]}

CycleLists ==
    UNION {
        {[i \in 1..n |-> [eol |-> ks[i].eol,
                          latest |-> IF ks[i].has_latest THEN CycleVersions[i] ELSE <<>>]] :
            ks \in [1..n -> CycleKinds]} :
        n \in 0..MaxCycles}

ScrapeOutcomes == {"request_error", "no_button", "bad_href", "page_error", "no_link", "found"}
OsFilters == {"win64", "win32", "macos", "linux"}

Networks ==
    {[requests_available |-> TRUE, bs4_available |-> TRUE, api |-> "list",
      cycles |-> c, scrape |-> sc] : c \in CycleLists, sc \in {"found", "no_link"}}
    \cup
    {[requests_available |-> r, bs4_available |-> b, api |-> a, cycles |-> <<>>,
      scrape |-> sc] :
        r \in BOOLEAN, b \in BOOLEAN, a \in {"request_error", "bad_json", "not_list"},
        sc \in ScrapeOutcomes}

\* the networks an install call is tried with
InstallNetworks ==
    {n \in Networks : n.api # "list" \/ (n.scrape = "found" /\ Len(n.cycles) <= 1)}

VersionTokens == {
    <<"a", "b", "c">>,
    <<"3", ".", "9">>,
    <<"3", ".", "9", ".", "x">>,
    <<"3", ".", "9", ".", "1", "3">>,
    <<"3", ".", "9", ".", "1", "3", ".", "1">>}

UrlTokens ==
    {<<"https://", "example.org", "/", "py.exe">>, <<"http://", "example.org", "/", "py">>}

InstallTokens == {<<"latest">>, <<"LATEST">>} \cup VersionTokens \cup UrlTokens

UrlScenarios ==
    {[op |-> "latest", os_filter |-> f, net |-> n] : f \in OsFilters, n \in Networks}
    \cup
    {[op |-> "install", token |-> t, net |-> n,
      ext |-> [download_ok |-> d, os_name |-> o]] :
        t \in InstallTokens, n \in InstallNetworks, d \in BOOLEAN, o \in {"nt", "posix"}}

InitUrl ==
    /\ urlIn \in UrlScenarios
    /\ urlOut = Pending
    /\ probeIn = None /\ probeOut = None
    /\ detIn = None /\ detOut = None
    /\ pathIn = None /\ pathOut = None
    /\ upIn = None /\ up = None /\ upLog = None
    /\ devIn = None /\ devOut = None

GetLatestUrl ==
    /\ urlIn # None /\ urlOut = Pending
    /\ urlIn.op = "latest"
    /\ urlOut' = GetLatestPythonDownloadUrl(urlIn.os_filter, urlIn.net)
    /\ UNCHANGED <<probeIn, probeOut, detIn, detOut, pathIn, pathOut, urlIn, upIn, up, upLog, devIn, devOut>>

InstallPython ==
    /\ urlIn # None /\ urlOut = Pending
    /\ urlIn.op = "install"
    /\ urlOut' = InstallPythonInteractive(urlIn.token, urlIn.net, urlIn.ext)
    /\ UNCHANGED <<probeIn, probeOut, detIn, detOut, pathIn, pathOut, urlIn, upIn, up, upLog, devIn, devOut>>

NextUrl == GetLatestUrl \/ InstallPython

SpecUrl == InitUrl /\ [][NextUrl]_vars

(***************************************************************************)
(* Properties of download-URL resolution                                   *)
(***************************************************************************)
UrlResolved == urlIn # None /\ urlOut # Pending

\* sub occurs in text as a contiguous run
Contains(text, sub) ==
    \E k \in 0..(Len(text) - Len(sub)) :
        \A i \in 1..Len(sub) : text[k + i] = sub[i]

\* the cycle the documented rule selects from a list given newest first
NewestSupportedCycle(cycles) ==
    IF \E i \in 1..Len(cycles) : cycles[i].eol = "false"
    THEN CHOOSE i \in 1..Len(cycles) :
             /\ cycles[i].eol = "false"
             /\ \A j \in 1..(i - 1) : cycles[j].eol # "false"
    ELSE 1

\* a list in which every cycle carries a boolean eol flag and a version
FlaggedCycles(cycles) ==
    /\ cycles # <<>>
    /\ \A i \in 1..Len(cycles) : cycles[i].eol \in {"true", "false"} /\ cycles[i].latest # <<>>

\* C8: for "latest" and any list of release cycles the resolver selects the
\* newest cycle whose end-of-life flag is false, or the newest cycle listed
\* when every cycle is end-of-life, and the file name of the resolved URL
\* contains the selected cycle's version.
C8_NewestSupportedCycleSelected ==
    (/\ UrlResolved
     /\ urlIn.op = "latest"
     /\ urlIn.os_filter \in {"win64", "win32", "macos"}
     /\ urlIn.net.api = "list"
     /\ FlaggedCycles(urlIn.net.cycles))
    => /\ urlOut.tag = "str"
       /\ Contains(LastSegment(urlOut.s),
                   urlIn.net.cycles[NewestSupportedCycle(urlIn.net.cycles)].latest)

\* ^\d+\.\d+\.\d+$
StrictVersion(token) ==
    LET parts == SplitDot(token)
    IN  /\ Len(parts) = 3
        /\ \A i \in 1..3 : parts[i] # <<>> /\ \A k \in 1..Len(parts[i]) : IsDigit(parts[i][k])

ExplicitVersionToken(token) ==
    /\ Lower(token) # <<"latest">>
    /\ ~(token # <<>> /\ token[1] \in {"http://", "https://"})

\* C9: an explicit version token that does not match int.int.int resolves to
\* the hardcoded fallback URL, raises no exception, and no URL is built
\* from the token.
C9_NonMatchingTokenYieldsFallback ==
    (/\ UrlResolved
     /\ urlIn.op = "install"
     /\ ExplicitVersionToken(urlIn.token)
     /\ ~StrictVersion(urlIn.token))
    => /\ urlOut.ret.tag # "raised"
       /\ urlOut.url = Str(PYTHON_INSTALLER_URL_WIN)

\* the metadata request failed or its payload could not be parsed
ApiFailed(net) == ~net.requests_available \/ net.api \in {"request_error", "bad_json"}

\* scraping is unavailable or does not find an installer link
ScrapeFailed(net) == ~net.bs4_available \/ ~net.requests_available \/ net.scrape # "found"

\* C10: when the release-metadata service is unreachable or its payload
\* cannot be parsed, resolving "latest" returns the hardcoded fallback URL
\* as a value on every failure path; no path raises or yields no result.
C10_FailurePathsReturnFallbackValue ==
    (/\ UrlResolved
     /\ urlIn.op = "latest"
     /\ urlIn.os_filter = "win64"
     /\ ApiFailed(urlIn.net)
     /\ ScrapeFailed(urlIn.net))
    => urlOut = Str(PYTHON_INSTALLER_URL_WIN)

(***************************************************************************)
(* system_utils.prompt_user_for_confirmation                               *)
(***************************************************************************)
\* one reply to the question: TRUE, FALSE, or "again" when the loop asks again
PromptNeverAccepts(reply) == Bool(FALSE)
PromptUserForConfirmation(reply) ==
    LET r == Strip(Lower(reply))
    IN  IF r = <<"y">> \/ r = <<"y", "e", "s">> THEN Bool(TRUE)
        ELSE IF r = <<"n">> \/ r = <<"n", "o">> THEN Bool(FALSE)
        ELSE [tag |-> "again"]

ConfirmationReplies ==
    {<<"y">>, <<"Y", "e", "s", " ">>, <<"n">>, <<" ", "N", "O">>, <<"m">>, <<>>}

(***************************************************************************)
(* python_env.update_pip                                                   *)
(***************************************************************************)
PermissionMessages == {"permission denied", "environmenterror", "access is denied"}

\* w is the probe world of the path, proc the run of "pip install --upgrade
\* pip" and proc_user the run of the same command with --user.  The result
\* holds the returned value (or the exception) and the commands launched.
UpdatePip(python_exe_path_str, w, proc, proc_user) ==
    LET python_info == GetPythonExecutableInfo(python_exe_path_str, w)
        result == RunCommand(proc, TRUE, FALSE, TRUE)
        result_user == RunCommand(proc_user, TRUE, TRUE, TRUE)
        ran(pr) == [kind |-> "pip_upgrade", target |-> python_info.executable,
                    ok |-> pr.launch = "ok" /\ pr.returncode = 0]
    IN  IF python_info = None THEN [ret |-> Bool(FALSE), commands |-> <<>>]
        ELSE IF result # None /\ result.returncode = 0
        THEN [ret |-> Bool(TRUE), commands |-> <<ran(proc)>>]
        ELSE IF result = None
        THEN [ret |-> Raised("AttributeError"), commands |-> <<ran(proc)>>]
        ELSE LET stderr_output == Lower(result.stdout \o result.stderr)
             IN  IF /\ result.returncode # 0
                    /\ \E k \in 1..Len(stderr_output) : stderr_output[k] \in PermissionMessages
                 THEN [ret |-> Bool(result_user # None /\ result_user.returncode = 0),
                       commands |-> <<ran(proc), ran(proc_user)>>]
                 ELSE [ret |-> Bool(FALSE), commands |-> <<ran(proc)>>]

(***************************************************************************)
(* The machine an upgrade session runs on                                  *)
(***************************************************************************)
OldExe == <<"C:\\Python38\\python.exe">>
\* another spelling of OldExe
OldRelative == <<"..\\Python38\\python.exe">>
StoreExe == <<"C:\\Users\\u\\AppData\\Local\\Microsoft\\", "WindowsApps", "\\python.exe">>
NewExe == <<"C:\\Python313\\python.exe">>
NotAFile == <<"C:\\Python313">>
\* a Python 2.7 and a Python 3.7 that are not the old runtime
Py2Exe == <<"C:\\Python27\\python.exe">>
Py37Exe == <<"C:\\Python37\\python.exe">>
UpPaths == {<<>>, OldExe, OldRelative, StoreExe, NewExe, NotAFile, Py2Exe, Py37Exe}

\* Path.resolve()
UpResolve(p) == IF p = OldRelative THEN OldExe ELSE p

\* how a process ends: launch, exit code and output
ProcOf(outcome, out) ==
    [launch |-> IF outcome = "launch_error" THEN "error" ELSE "ok",
     returncode |-> IF outcome \in {"nonzero", "nonzero_output", "denied"} THEN 1 ELSE 0,
     stdout |-> IF outcome \in {"ok", "nonzero_output"} THEN out ELSE <<>>,
     stderr |-> IF outcome = "denied" THEN <<"permission denied">> ELSE <<>>]

\* the probe world of path p on machine env; healthy is whether "<p> --version"
\* can be launched at this call
UpWorld(p, healthy, env) ==
    LET version == IF UpResolve(p) = UpResolve(env.old_arg) THEN env.old_version
                   ELSE IF p = NewExe THEN <<3, 13, 3>>
                   ELSE IF p = Py2Exe THEN <<2, 7, 18>>
                   ELSE IF p = Py37Exe THEN <<3, 7, 9>>
                   ELSE <<3, 11, 9>>
    IN  [is_file |-> p \notin {<<>>, NotAFile}
                     /\ (UpResolve(p) = UpResolve(env.old_arg) => env.old_present),
         proc |-> ProcOf(IF healthy THEN "ok" ELSE "launch_error",
                         <<"Python", " ">>
                             \o VersionText(version[1], version[2], version[3]) \o <<"\n">>),
         resolve_raises |-> FALSE,
         resolved |-> UpResolve(p),
         os_name |-> env.os_name]

UpEnv(healthy, env) ==
    [sys_executable |-> NewExe,
     which_python |-> <<>>,
     world |-> [p \in UpPaths |-> UpWorld(p, healthy, env)]]

\* the networks a session is tried with: the API names a supported cycle,
\* only scraping finds a link, nothing works
UpgradeNetworks ==
    {[requests_available |-> TRUE, bs4_available |-> TRUE, api |-> "list",
      cycles |-> <<[eol |-> "false", latest |-> CycleVersions[1]]>>, scrape |-> "found"],
     [requests_available |-> TRUE, bs4_available |-> TRUE, api |-> "request_error",
      cycles |-> <<>>, scrape |-> "found"],
     [requests_available |-> FALSE, bs4_available |-> FALSE, api |-> "request_error",
      cycles |-> <<>>, scrape |-> "request_error"]}

UpgradeMachines ==
    [old_arg : {OldExe, OldRelative, StoreExe},
     old_version : {<<3, 8, 10>>, <<2, 7, 18>>},
     old_present : BOOLEAN,
     os_name : {"nt", "posix"},
     net : UpgradeNetworks,
     download_ok : BOOLEAN]

\* what the user types at "Enter the full path to the new python.exe: "
PathReplies ==
    {<<>>, <<" ">>, <<"\"", "\"">>, NewExe, <<" ", "\"">> \o NewExe \o <<"\"", " ">>,
     OldExe, OldRelative, StoreExe, NotAFile, Py2Exe, Py37Exe}

\* .strip().replace("\"", "")
CleanPathReply(raw) == SelectSeq(Strip(raw), LAMBDA t : t # "\"")

FreezeOutcomes == {"ok", "empty", "nonzero", "nonzero_output", "launch_error"}
PipOutcomes == {"ok", "nonzero", "denied", "launch_error"}
RequirementsText == <<"requests==2.31.0", "\n">>

(***************************************************************************)
(* python_env.upgrade_python_interactive                                   *)
(* SpecUpgrade: one session, one action per stretch of code between two    *)
(* points where the function waits for the user or for a command           *)
(***************************************************************************)
\* up.pc is where the session waits; up.ret is Pending until the function
\* returns or raises.  upLog.commands lists the commands launched (freeze,
\* download, launch, pip_upgrade, reinstall), upLog.prompts the yes/no
\* questions answered, upLog.printed the messages the properties refer to,
\* upLog.manifest the temporary requirements file: "none", "present",
\* "deleted", or "delete_failed" (unlink raised and the file is still there).

InitUpgrade ==
    /\ upIn \in UpgradeMachines
    /\ up = [pc |-> "start", old_python_info |-> None, requirements_content |-> None,
             new_python_exe_str |-> <<>>, new_python_info_temp |-> None,
             new_python_exe |-> <<>>, ret |-> Pending]
    /\ upLog = [commands |-> <<>>, prompts |-> {}, printed |-> {}, path_prompted |-> FALSE,
                manifest |-> "none"]
    /\ probeIn = None /\ probeOut = None
    /\ detIn = None /\ detOut = None
    /\ pathIn = None /\ pathOut = None
    /\ urlIn = None /\ urlOut = None
    /\ devIn = None /\ devOut = None

Others == <<probeIn, probeOut, detIn, detOut, pathIn, pathOut, urlIn, urlOut, upIn, devIn, devOut>>

\* A yes/no question is asked again until the reply is y, yes, n or no; the
\* Answer actions take the reply that ends that loop.
At(pc) == up # None /\ up.pc = pc
ReturnAndGoOn(value) == [up EXCEPT !.ret = value]
Return(value) == [up EXCEPT !.pc = "done", !.ret = value]
Answered(question, b) == [upLog EXCEPT !.prompts = @ \cup {[q |-> question, a |-> b]}]
RanTwice(commands) == [upLog EXCEPT !.commands = @ \o commands \o commands]
Ran(commands) == [upLog EXCEPT !.commands = @ \o commands]

\* lines 347 to 358: probe the old runtime
Start ==
    /\ At("start")
    /\ \E healthy \in BOOLEAN :
         LET old_python_info ==
                 CheckPythonInstallation(<<0, 0>>, upIn.old_arg, UpEnv(healthy, upIn)).ret
         IN  up' = IF old_python_info = None THEN Return(Bool(FALSE))
                   ELSE [up EXCEPT !.old_python_info = old_python_info,
                                   !.pc = IF old_python_info.is_windows_store_app
                                          THEN "ask_store" ELSE "freeze"]
    /\ UNCHANGED <<Others, upLog>>

\* line 357: "Do you want to proceed with attempting an upgrade guide anyway?"
AnswerStore ==
    /\ At("ask_store")
    /\ \E reply \in ConfirmationReplies :
         LET answer == PromptUserForConfirmation(reply)
         IN  /\ answer.tag = "bool"
             /\ up' = IF answer.b THEN [up EXCEPT !.pc = "freeze"] ELSE Return(Bool(FALSE))
             /\ upLog' = Answered("store", answer.b)
    /\ UNCHANGED Others

\* line 363: the package listing is usable
FreezeSucceededIgnoringExit(freeze_result) ==
    freeze_result # None /\ freeze_result.stdout # <<>>
FreezeSucceeded(freeze_result) ==
    freeze_result # None /\ freeze_result.returncode = 0 /\ freeze_result.stdout # <<>>

\* lines 359 to 367: pip freeze against the old runtime
Freeze ==
    /\ At("freeze")
    /\ \E outcome \in FreezeOutcomes :
         LET proc == ProcOf(outcome, RequirementsText)
             freeze_result == RunCommand(proc, TRUE, FALSE, FALSE)
         IN  /\ up' = IF FreezeSucceeded(freeze_result)
                      THEN [up EXCEPT !.requirements_content = Str(freeze_result.stdout),
                                      !.pc = "install"]
                      ELSE [up EXCEPT !.pc = "ask_no_migration"]
             /\ upLog' = Ran(<<[kind |-> "freeze", target |-> up.old_python_info.executable,
                                ok |-> proc.launch = "ok" /\ proc.returncode = 0]>>)
    /\ UNCHANGED Others

\* line 368: "Continue with Python upgrade without package migration?"
AnswerNoMigration ==
    /\ At("ask_no_migration")
    /\ \E reply \in ConfirmationReplies :
         LET answer == PromptUserForConfirmation(reply)
         IN  /\ answer.tag = "bool"
             /\ up' = IF answer.b THEN [up EXCEPT !.pc = "install"] ELSE Return(Bool(FALSE))
             /\ upLog' = Answered("no_migration", answer.b)
    /\ UNCHANGED Others

\* lines 370 to 377: download and launch the installer of the latest version;
\* startfile_ok is whether os.startfile returns without an exception
Install ==
    /\ At("install")
    /\ \E startfile_ok \in BOOLEAN :
       LET r == InstallPythonInteractive(<<"latest">>, upIn.net,
                    [download_ok |-> upIn.download_ok, os_name |-> upIn.os_name])
       IN  /\ up' = IF r.ret = Bool(TRUE) THEN [up EXCEPT !.pc = "enter_path"]
                    ELSE Return(r.ret)
           /\ upLog' = Ran((IF r.download_started
                            THEN <<[kind |-> "download", target |-> r.url.s,
                                    ok |-> upIn.download_ok]>>
                            ELSE <<>>)
                           \o
                           (IF r.launch_started
                            THEN <<[kind |-> "launch", target |-> r.name,
                                    ok |-> startfile_ok]>>
                            ELSE <<>>))
    /\ UNCHANGED Others

\* line 387: the candidate is the old runtime
SameExecutableNever(new_executable, old_executable) == FALSE
SameExecutable(new_executable, old_executable) == new_executable = old_executable

\* lines 379 to 396, one turn of the loop up to the next question
EnterPath ==
    /\ At("enter_path")
    /\ \E raw \in PathReplies, healthy \in BOOLEAN :
         LET new_python_exe_str == CleanPathReply(raw)
             new_python_info_temp ==
                 GetPythonExecutableInfo(new_python_exe_str,
                                         UpWorld(new_python_exe_str, healthy, upIn))
             typed == [up EXCEPT !.new_python_exe_str = new_python_exe_str]
         IN  IF new_python_exe_str = <<>>
             THEN /\ up' = [typed EXCEPT !.pc = "ask_skip"]
                  /\ upLog' = [upLog EXCEPT !.path_prompted = TRUE]
             ELSE IF new_python_info_temp = None
             THEN /\ up' = typed
                  /\ upLog' = [upLog EXCEPT !.path_prompted = TRUE,
                                            !.printed = @ \cup {"not_a_python"}]
             ELSE IF SameExecutable(new_python_info_temp.executable,
                                    up.old_python_info.executable)
             THEN /\ up' = typed
                  /\ upLog' = [upLog EXCEPT !.path_prompted = TRUE,
                                            !.printed = @ \cup {"same_as_old"}]
             ELSE /\ up' = [typed EXCEPT !.pc = "ask_correct",
                                         !.new_python_info_temp = new_python_info_temp]
                  /\ upLog' = [upLog EXCEPT !.path_prompted = TRUE]
    /\ UNCHANGED Others

\* line 384: requirements_content = None
SkipSnapshotKept(requirements_content) == requirements_content
SkipSnapshot(requirements_content) == None

\* lines 382 to 385 and 397 to 402: "Skip package reinstallation for now?";
\* on a yes the loop is left with an empty new_python_exe_str
AnswerSkip ==
    /\ At("ask_skip")
    /\ \E reply \in ConfirmationReplies :
         LET answer == PromptUserForConfirmation(reply)
             requirements_content == SkipSnapshot(up.requirements_content)
         IN  /\ answer.tag = "bool"
             /\ up' = IF answer.b
                      THEN [Return(Bool(requirements_content = None))
                                EXCEPT !.requirements_content = requirements_content]
                      ELSE [up EXCEPT !.pc = "enter_path"]
             /\ upLog' = [Answered("skip", answer.b) EXCEPT
                              !.printed = @ \cup (IF answer.b /\ requirements_content # None
                                                   THEN {"no_path_cannot_reinstall"}
                                                   ELSE {})]
    /\ UNCHANGED Others

\* lines 392 to 394 and 397 to 404: "Is this correct?", then the second probe
AnswerCorrect ==
    /\ At("ask_correct")
    /\ \E reply \in ConfirmationReplies, healthy \in BOOLEAN :
         LET answer == PromptUserForConfirmation(reply)
             info == GetPythonExecutableInfo(up.new_python_exe_str,
                                             UpWorld(up.new_python_exe_str, healthy, upIn))
         IN  /\ answer.tag = "bool"
             /\ up' = IF ~answer.b
                      THEN [up EXCEPT !.pc = "enter_path", !.new_python_info_temp = None]
                      ELSE IF info = None THEN Return(Raised("TypeError"))
                      ELSE [up EXCEPT !.pc = "update_pip", !.new_python_exe = info.executable]
             /\ upLog' = Answered("correct", answer.b)
    /\ UNCHANGED Others

\* line 409: if requirements_content
HasSnapshotAlways(requirements_content) == TRUE
HasSnapshot(requirements_content) == requirements_content # None

\* lines 409 and 425 to 439: on to the reinstall, or the summary and return
AfterPip ==
    IF HasSnapshot(up.requirements_content) THEN [up EXCEPT !.pc = "reinstall"]
    ELSE Return(Bool(TRUE))

\* lines 405 and 406: upgrade pip of the new runtime
UpdatePipStep ==
    /\ At("update_pip")
    /\ \E healthy \in BOOLEAN, outcome \in PipOutcomes, outcome_user \in {"ok", "nonzero"} :
         LET r == UpdatePip(up.new_python_exe, UpWorld(up.new_python_exe, healthy, upIn),
                            ProcOf(outcome, <<>>), ProcOf(outcome_user, <<>>))
         IN  /\ up' = IF r.ret.tag = "raised" THEN Return(r.ret)
                      ELSE IF r.ret.b THEN AfterPip
                      ELSE [up EXCEPT !.pc = "ask_continue"]
             /\ upLog' = Ran(r.commands)
    /\ UNCHANGED Others

\* line 407: "Continue with package reinstallation?"
AnswerContinue ==
    /\ At("ask_continue")
    /\ \E reply \in ConfirmationReplies :
         LET answer == PromptUserForConfirmation(reply)
         IN  /\ answer.tag = "bool"
             /\ up' = IF answer.b THEN AfterPip ELSE Return(Bool(FALSE))
             /\ upLog' = Answered("continue", answer.b)
    /\ UNCHANGED Others

\* lines 410 to 416: write the manifest and start pip install -r
WriteManifest ==
    /\ At("reinstall")
    /\ up' = [up EXCEPT !.pc = "reinstalling"]
    /\ upLog' = [upLog EXCEPT !.manifest = "present"]
    /\ UNCHANGED Others

\* lines 422 to 425: unlink in a try block; a failure is printed
UnlinkManifestSkipped(unlink_ok) == "present"
UnlinkManifest(unlink_ok) == IF unlink_ok THEN "deleted" ELSE "delete_failed"

\* line 417: if install_result and install_result.returncode == 0
ReinstallSucceededAlways(install_result) == TRUE
ReinstallSucceeded(install_result) ==
    install_result # None /\ install_result.returncode = 0

\* lines 416 to 439: the end of pip install -r, the deletion of the manifest,
\* the summary, return True
Reinstall ==
    /\ At("reinstalling")
    /\ \E outcome \in {"ok", "nonzero", "launch_error"}, unlink_ok \in BOOLEAN :
         LET proc == ProcOf(outcome, <<>>)
             install_result == RunCommand(proc, TRUE, FALSE, TRUE)
         IN  /\ up' = Return(Bool(TRUE))
             /\ upLog' = [Ran(<<[kind |-> "reinstall", target |-> up.new_python_exe,
                                 ok |-> proc.launch = "ok" /\ proc.returncode = 0]>>)
                              EXCEPT !.manifest = UnlinkManifest(unlink_ok),
                                     !.printed = @ \cup
                                         (IF ReinstallSucceeded(install_result) THEN {}
                                          ELSE {"reinstall_warning"})
                                         \cup
                                         (IF unlink_ok THEN {}
                                          ELSE {"manifest_not_deleted"})]
    /\ UNCHANGED Others

NextUpgrade ==
    \/ Start \/ AnswerStore \/ Freeze \/ AnswerNoMigration \/ Install \/ EnterPath
    \/ AnswerSkip \/ AnswerCorrect \/ UpdatePipStep \/ AnswerContinue
    \/ WriteManifest \/ Reinstall

SpecUpgrade == InitUpgrade /\ [][NextUpgrade]_vars

\* a turn of the new-path loop that ends in a question, and an answer that
\* leaves the loop
LoopAsks == EnterPath /\ up'.pc # "enter_path"
LoopLeft ==
    \/ AnswerSkip /\ up'.pc = "done"
    \/ AnswerCorrect /\ up'.pc # "enter_path"

\* The session under the conditions it needs to end: every command ends and
\* every question is answered (weak fairness of the steps), and the user in
\* the end confirms a skip or a valid new path (strong fairness of leaving
\* the loop, which is possible again and again but not continuously).
SpecUpgradeFair ==
    /\ SpecUpgrade
    /\ WF_vars(NextUpgrade)
    /\ SF_vars(LoopAsks)
    /\ SF_vars(LoopLeft)

(***************************************************************************)
(* Properties of the upgrade session                                       *)
(***************************************************************************)
CommandRan(kind) == \E i \in 1..Len(upLog.commands) : upLog.commands[i].kind = kind

\* the user confirmed a new runtime whose resolved path is not the old one's
ConfirmedDistinctRuntime ==
    /\ [q |-> "correct", a |-> TRUE] \in upLog.prompts
    /\ up.new_python_info_temp # None
    /\ up.new_python_info_temp.executable # up.old_python_info.executable

C2_SamePathCandidateRetried ==
    [][(/\ At("enter_path")
        /\ up'.new_python_exe_str # <<>>
        /\ UpResolve(up'.new_python_exe_str) = up.old_python_info.executable)
       => (/\ up'.pc = "enter_path"
           /\ up'.ret = Pending
           /\ up'.requirements_content = up.requirements_content
           /\ up'.new_python_info_temp = None
           /\ upLog'.commands = upLog.commands)]_vars

C2_Witness ==
    /\ At("enter_path")
    /\ "same_as_old" \in upLog.printed
    /\ UpResolve(up.new_python_exe_str) = up.old_python_info.executable
    /\ up.new_python_exe_str # up.old_python_info.executable

\* the package listing exited nonzero or could not be launched
FreezeFailed ==
    \E i \in 1..Len(upLog.commands) :
        upLog.commands[i].kind = "freeze" /\ ~upLog.commands[i].ok

\* C7: when the package listing against the old runtime fails, the session
\* goes on only after the user confirmed continuing without migration, and
\* the snapshot stays null; when the user declines the session returns
\* False and no download, installer launch or new-path prompt occurs.
C7_FailedListingContinuesOnlyOnConfirmation ==
    (up # None /\ FreezeFailed)
    => LET confirmed == [q |-> "no_migration", a |-> TRUE] \in upLog.prompts
           declined == [q |-> "no_migration", a |-> FALSE] \in upLog.prompts
       IN  /\ up.requirements_content = None
           /\ IF up.pc = "ask_no_migration" THEN ~confirmed /\ ~declined
              ELSE confirmed # declined
           /\ declined =>
                  /\ up.pc = "done" /\ up.ret = Bool(FALSE)
                  /\ ~CommandRan("download") /\ ~CommandRan("launch")
                  /\ ~upLog.path_prompted
           /\ (CommandRan("download") \/ CommandRan("launch") \/ upLog.path_prompted)
                  => confirmed

C7_Witness ==
    /\ up # None
    /\ FreezeFailed
    /\ [q |-> "no_migration", a |-> FALSE] \in upLog.prompts
    /\ up.ret = Bool(FALSE)

(***************************************************************************)
(* toolchain_setup.check_devkitpro_installation                            *)
(***************************************************************************)
DevkitPPCName == <<"d", "e", "v", "k", "i", "t", "P", "P", "C">>

\* e is the environment of the call: os, devkitpro and devkitppc (the values
\* of the two environment variables, <<>> when unset), dirs (the directories
\* that exist), key_tool_file (the marker executable is a file) and
\* msys2_in_path (the search path holds <root>/msys2/usr/bin).  The result
\* holds the returned value (or the exception) and the messages printed.
CheckDevkitproInstallation(e) ==
    LET env_var == ConstantAttr("DEVKITPRO_ENV_VAR")
        devkitpro_env_val == e.devkitpro
        actual_devkitpro_path == GetActualDevkitproWindowsPath(devkitpro_env_val, e.os, e.dirs)
        key_tool == ConstantAttr("DEVKITPRO_KEY_TOOL")
        devkitppc_path_expected == JoinPath(actual_devkitpro_path, DevkitPPCName, e.os)
        resolved_devkitppc_env_path == GetActualDevkitproWindowsPath(e.devkitppc, e.os, e.dirs)
    IN  IF env_var.tag = "raised" THEN [ret |-> env_var, log |-> {}]
        ELSE IF devkitpro_env_val = <<>> THEN [ret |-> None, log |-> {"not_set"}]
        ELSE IF actual_devkitpro_path = None \/ ~IsDir(actual_devkitpro_path, e.os, e.dirs)
        THEN [ret |-> None, log |-> {"not_a_directory"}]
        ELSE IF key_tool.tag = "raised" THEN [ret |-> key_tool, log |-> {}]
        ELSE [ret |-> [tag |-> "devkit",
                       DEVKITPRO_ENV |-> devkitpro_env_val,
                       resolved_path |-> StrOfPath(actual_devkitpro_path, e.os),
                       key_tool_found |-> e.key_tool_file,
                       msys2_bin_in_path |-> e.msys2_in_path],
              log |-> (IF e.key_tool_file THEN {} ELSE {"key_tool_warning"})
                      \cup
                      (IF IsDir(devkitppc_path_expected, e.os, e.dirs) THEN {}
                       ELSE {"devkitppc_dir_warning"})
                      \cup
                      (IF e.devkitppc = <<>> THEN {"devkitppc_env_not_set"}
                       ELSE IF \/ resolved_devkitppc_env_path = None
                               \/ ~IsDir(resolved_devkitppc_env_path, e.os, e.dirs)
                               \/ ~SamePath(resolved_devkitppc_env_path,
                                            devkitppc_path_expected, e.os)
                       THEN {"devkitppc_env_mismatch"} ELSE {})]

(***************************************************************************)
(* SpecDevkit: check_devkitpro_installation over environments              *)
(* SpecDetection: both detection calls                                    *)
(***************************************************************************)
DevkitEnvValues == {<<>>} \cup RawValues
DevkitPPCEnvValues == {<<>>, <<"/", "o", "p", "t", "/", "d", "e", "v", "k", "i", "t", "p", "r", "o", "/", "d", "e", "v", "k", "i", "t", "P", "P", "C">>, <<"C", ":", "\\", "d", "e", "v", "k", "i", "t", "P", "r", "o", "\\", "d", "e", "v", "k", "i", "t", "P", "P", "C">>}

DevkitScenarios ==
    [os : {"nt", "posix"}, devkitpro : DevkitEnvValues, devkitppc : DevkitPPCEnvValues,
     dirs : FileSystems, key_tool_file : BOOLEAN, msys2_in_path : BOOLEAN]

InitDevkit ==
    /\ devIn \in DevkitScenarios
    /\ devOut = Pending
    /\ probeIn = None /\ probeOut = None
    /\ detIn = None /\ detOut = None
    /\ pathIn = None /\ pathOut = None
    /\ urlIn = None /\ urlOut = None
    /\ upIn = None /\ up = None /\ upLog = None

CheckDevkitpro ==
    /\ devIn # None /\ devOut = Pending
    /\ devOut' = CheckDevkitproInstallation(devIn)
    /\ UNCHANGED <<probeIn, probeOut, detIn, detOut, pathIn, pathOut, urlIn, urlOut,
                   upIn, up, upLog, devIn>>

NextDevkit == CheckDevkitpro

SpecDevkit == InitDevkit /\ [][NextDevkit]_vars

InitDetection == InitDetect \/ InitDevkit

NextDetection == Detect \/ CheckDevkitpro

SpecDetection == InitDetection /\ [][NextDetection]_vars

(***************************************************************************)
(* Properties of the detection calls                                       *)
(***************************************************************************)
DetectReturned == detIn # None /\ detOut # Pending
DevkitReturned == devIn # None /\ devOut # Pending

\* C11: every failure of interpreter detection and of compiler-suite
\* detection is reported as a structured result from which the caller can read
\* the kind of failure, and no detection call ends by raising an exception.
C11_DetectionFailuresStructuredNeverRaised ==
    /\ DetectReturned => detOut.ret.tag \in {"info", "error"}
    /\ DevkitReturned => devOut.ret.tag \in {"devkit", "error"}

\* the DEVKITPRO variable is set and resolves to an existing directory
DevkitRootExists(e) ==
    /\ e.devkitpro # <<>>
    /\ GetActualDevkitproWindowsPath(e.devkitpro, e.os, e.dirs) # None
    /\ IsDir(GetActualDevkitproWindowsPath(e.devkitpro, e.os, e.dirs), e.os, e.dirs)

\* C15: the compiler suite is reported present exactly when the environment
\* variable is set and resolves to an existing directory, whatever the marker
\* executable, the devkitPPC directory, the search path and DEVKITPPC are.
C15_PresentIffRootExists ==
    DevkitReturned =>
        /\ DevkitRootExists(devIn) <=> devOut.ret.tag = "devkit"
        /\ ~DevkitRootExists(devIn) <=> devOut.ret = None

(***************************************************************************)
(* More properties of the upgrade session                                  *)
(***************************************************************************)
\* C12: no failure of an external step (a package-manager command that cannot
\* be launched, a new executable that stops probing after it was confirmed, a
\* failed download) leaves upgrade_python_interactive as an exception: a
\* session that ends has returned a terminal outcome.
C12_SessionAlwaysReturns ==
    (up # None /\ up.pc = "done") => up.ret.tag = "bool"

\* C13: a new-path candidate is offered for confirmation, and confirmed, only
\* if detection accepts it (found, major version not 2, version not below the
\* minimum); a candidate detection rejects is never accepted.
C13_ConfirmedCandidatePassesDetection ==
    (up # None /\ up.new_python_info_temp # None)
    => CheckPythonInstallation(MIN_PYTHON_VERSION, up.new_python_exe_str,
                               UpEnv(TRUE, upIn)).ret # None

\* C14: after an empty new path and a yes to the skip question the snapshot
\* is cleared and the session has returned True; the only commands of the
\* session are those started before the skip (listing, download, installer
\* launch): no package-manager command runs against the new runtime and no
\* manifest is written.
C14_SkipEndsWithoutMigration ==
    (up # None /\ [q |-> "skip", a |-> TRUE] \in upLog.prompts)
    => /\ up.pc = "done"
       /\ up.ret = Bool(TRUE)
       /\ up.requirements_content = None
       /\ up.new_python_exe_str = <<>>
       /\ \A i \in 1..Len(upLog.commands) :
              upLog.commands[i].kind \in {"freeze", "download", "launch"}
       /\ upLog.manifest = "none"

C14_Witness ==
    /\ up # None
    /\ [q |-> "skip", a |-> TRUE] \in upLog.prompts
    /\ \E i \in 1..Len(upLog.commands) :
           upLog.commands[i].kind = "freeze" /\ upLog.commands[i].ok
    /\ [q |-> "no_migration", a |-> TRUE] \notin upLog.prompts
    /\ up.ret = Bool(TRUE)

\* C17: when detection of the supplied old executable does not succeed (it
\* is missing, or it is a Python 2) the session returns False at once: no
\* package listing, download, installer launch, question or path prompt.
C17_UndetectedOldRuntimeAborts ==
    (up # None /\ up.pc # "start")
    => /\ (~upIn.old_present \/ upIn.old_version[1] = 2) => up.old_python_info = None
       /\ up.old_python_info = None =>
              /\ up.pc = "done"
              /\ up.ret = Bool(FALSE)
              /\ upLog.commands = <<>>
              /\ upLog.prompts = {}
              /\ ~upLog.path_prompted

C17_Witness ==
    /\ up # None
    /\ up.pc = "done"
    /\ up.old_python_info = None
    /\ upIn.old_present
    /\ upIn.old_version = <<2, 7, 18>>
    /\ up.ret = Bool(FALSE)

\* the installer URL cannot be resolved or the download fails
InstallFails(env) ==
    GetLatestPythonDownloadUrl("win64", env.net).tag # "str" \/ ~env.download_ok

\* C18: when resolving the download URL or fetching the installer fails the
\* session returns False; the new-path prompt is not reached and no command
\* runs against a new runtime.
C18_FailedInstallAborts ==
    [][(At("install") /\ InstallFails(upIn))
       => (/\ up'.pc = "done"
           /\ up'.ret = Bool(FALSE)
           /\ ~upLog'.path_prompted
           /\ ~\E i \in 1..Len(upLog'.commands) :
                  upLog'.commands[i].kind \in {"pip_upgrade", "reinstall"})]_vars

\* C19: the pip self-upgrade of the new runtime is best-effort: whether it
\* succeeds or fails the session goes on to the reinstall (to the summary
\* when there is no snapshot); a failure neither ends the session nor makes
\* it ask the user whether to stop.
C19_PipUpgradeBestEffort ==
    [][At("update_pip")
       => (/\ up'.pc \in {"reinstall", "done"}
           /\ up'.pc = "done" => up'.ret = Bool(TRUE) /\ up'.requirements_content = None)]_vars

LexLess(v, m) ==
    \E k \in 1..Len(m) :
        /\ \A j \in 1..(k - 1) : j <= Len(v) /\ v[j] = m[j]
        /\ (k > Len(v) \/ (k <= Len(v) /\ v[k] < m[k]))

\* the probe of the scenario yields its version triple
DetectProbed(sc) == sc.fault = "none" /\ sc.how # "no_sys"

C21_ReinstallFailureStillCompletes ==
    (up # None /\ CommandRan("reinstall"))
    => /\ up.pc = "done"
       /\ up.ret = Bool(TRUE)
       /\ upLog.commands[Len(upLog.commands)].kind = "reinstall"
       /\ ~upLog.commands[Len(upLog.commands)].ok <=> "reinstall_warning" \in upLog.printed
       /\ up.requirements_content # None

C21_Witness ==
    /\ up # None
    /\ up.ret = Bool(TRUE)
    /\ "reinstall_warning" \in upLog.printed
    /\ upLog.manifest = "deleted"
    /\ \E i \in 1..Len(upLog.commands) :
           upLog.commands[i].kind = "pip_upgrade" /\ ~upLog.commands[i].ok

\* the status of the session: Started 0, OldDetected 1, Downloading 2,
\* AwaitingNewPathConfirmation 3, Migrating 4, terminal 5
StatusRank(pc) ==
    CASE pc = "start" -> 0
      [] pc \in {"ask_store", "freeze", "ask_no_migration"} -> 1
      [] pc = "install" -> 2
      [] pc \in {"enter_path", "ask_skip", "ask_correct"} -> 3
      [] pc \in {"update_pip", "ask_continue", "reinstall", "reinstalling"} -> 4
      [] OTHER -> 5

\* C22: the status of a session only moves forward (Started, OldDetected,
\* Downloading, AwaitingNewPathConfirmation, Migrating, terminal); a session
\* that has returned is in the terminal status and takes no further step.
C22_StatusOnlyMovesForward ==
    [][/\ StatusRank(up'.pc) >= StatusRank(up.pc)
       /\ up.ret # Pending => up' = up /\ upLog' = upLog
       /\ up'.ret # Pending <=> up'.pc = "done"]_vars

C22_Witness ==
    /\ up # None
    /\ up.pc = "done"
    /\ up.ret = Bool(TRUE)
    /\ [q |-> "no_migration", a |-> TRUE] \in upLog.prompts
    /\ [q |-> "correct", a |-> FALSE] \in upLog.prompts
    /\ [q |-> "continue", a |-> TRUE] \in upLog.prompts

CommandCount(kind) ==
    Cardinality({i \in 1..Len(upLog.commands) : upLog.commands[i].kind = kind})

\* C23: in one session the installer is fetched at most once and launched at
\* most once; after a failed download the session has returned False without
\* a launch, and after a failed launch neither is started again.
C23_InstallerStartedAtMostOnce ==
    up # None =>
        /\ CommandCount("download") <= 1
        /\ CommandCount("launch") <= 1
        /\ \A i \in 1..Len(upLog.commands) :
               (upLog.commands[i].kind = "download" /\ ~upLog.commands[i].ok)
               => /\ up.pc = "done" /\ up.ret = Bool(FALSE)
                  /\ CommandCount("launch") = 0
                  /\ i = Len(upLog.commands)

C23_Witness ==
    /\ up # None
    /\ up.pc = "done"
    /\ CommandCount("download") = 1
    /\ \E i \in 1..Len(upLog.commands) :
           upLog.commands[i].kind = "launch" /\ ~upLog.commands[i].ok
    /\ "not_a_python" \in upLog.printed

\* the session is past the new-path loop with a path
LoopLeftWithPath ==
    \/ up.pc \in {"update_pip", "ask_continue", "reinstall", "reinstalling"}
    \/ up.pc = "done" /\ [q |-> "correct", a |-> TRUE] \in upLog.prompts

\* C28: when the new-path loop is left with an empty path the snapshot is
\* null, so the return 'New Python path not provided. Cannot reinstall
\* packages.' is never taken; when it is left with a path, that candidate
\* probed successfully, is not the old runtime and was confirmed by the user.
C28_LoopExitInvariant ==
    up # None =>
        /\ "no_path_cannot_reinstall" \notin upLog.printed
        /\ (up.pc \notin {"enter_path", "ask_skip", "ask_correct"}
            /\ upLog.path_prompted /\ up.new_python_exe_str = <<>>)
           => (up.requirements_content = None /\ up.ret = Bool(TRUE))
        /\ LoopLeftWithPath
           => /\ up.new_python_exe_str # <<>>
              /\ up.new_python_info_temp # None
              /\ up.new_python_info_temp.executable = UpResolve(up.new_python_exe_str)
              /\ up.new_python_info_temp.executable # up.old_python_info.executable
              /\ [q |-> "correct", a |-> TRUE] \in upLog.prompts
              /\ [q |-> "skip", a |-> TRUE] \notin upLog.prompts

C28_Witness ==
    /\ up # None
    /\ up.pc = "update_pip"
    /\ [q |-> "skip", a |-> FALSE] \in upLog.prompts
    /\ "same_as_old" \in upLog.printed
    /\ up.requirements_content # None

\* C29: the old runtime is only read: the only command of a session run with
\* the old executable is the package listing (besides the version probes);
\* pip install commands never have the old executable as their target.
C29_OldRuntimeOnlyRead ==
    up # None =>
        \A i \in 1..Len(upLog.commands) :
            LET c == upLog.commands[i]
            IN  /\ c.kind = "freeze" => c.target = up.old_python_info.executable
                /\ c.kind \in {"pip_upgrade", "reinstall"} =>
                       /\ c.target # up.old_python_info.executable
                       /\ c.target # UpResolve(upIn.old_arg)

C29_Witness ==
    /\ up # None
    /\ CommandRan("freeze")
    /\ CommandRan("reinstall")
    /\ "same_as_old" \in upLog.printed
    /\ upIn.old_arg = OldRelative

C24_SearchPathIsThirdSource ==
    (/\ DetectReturned
     /\ detIn.how = "no_sys"
     /\ detIn.which = "python3"
     /\ ~TupleLess(<<3, 7, 18>>, detIn.min_version))
    => detOut.ret # None

\* C25 as stated: the store classification adds no blocking prompt to the
\* upgrade session.
C25_StoreFlagAddsNoPrompt ==
    up # None =>
        /\ up.pc # "ask_store"
        /\ \A a \in BOOLEAN : [q |-> "store", a |-> a] \notin upLog.prompts

StoreFlagged == up.old_python_info # None /\ up.old_python_info.is_windows_store_app

\* the same machine on the other platform: the same executable, probe and
\* version, with only the store classification different
OtherPlatform(env) == [env EXCEPT !.os_name = IF @ = "nt" THEN "posix" ELSE "nt"]

\* C25: the store classification does not change the verdict of detection,
\* but in an upgrade session it adds one blocking prompt before the package
\* listing: the prompt is asked exactly for a store runtime, declining it
\* ends the session with False before any command has run, accepting it
\* continues with the package listing.
C25_StoreFlagPromptsBeforeListing ==
    up # None =>
        /\ \A healthy \in BOOLEAN :
               (CheckPythonInstallation(<<0, 0>>, upIn.old_arg, UpEnv(healthy, upIn)).ret = None)
               <=> (CheckPythonInstallation(<<0, 0>>, upIn.old_arg,
                                            UpEnv(healthy, OtherPlatform(upIn))).ret = None)
        /\ up.old_python_info # None
           => (up.old_python_info.is_windows_store_app
               <=> (upIn.os_name = "nt" /\ upIn.old_arg = StoreExe))
        /\ (up.pc = "ask_store" \/ \E a \in BOOLEAN : [q |-> "store", a |-> a] \in upLog.prompts)
           => StoreFlagged
        /\ up.pc = "ask_store" => upLog.commands = <<>> /\ upLog.prompts = {}
        /\ (StoreFlagged /\ up.pc # "ask_store")
           => \E a \in BOOLEAN : [q |-> "store", a |-> a] \in upLog.prompts
        /\ [q |-> "store", a |-> FALSE] \in upLog.prompts
           => /\ up.pc = "done" /\ up.ret = Bool(FALSE)
              /\ upLog.commands = <<>>
              /\ upLog.prompts = {[q |-> "store", a |-> FALSE]}
        /\ (CommandRan("freeze") /\ StoreFlagged)
           => [q |-> "store", a |-> TRUE] \in upLog.prompts

C25_Witness ==
    /\ up # None
    /\ StoreFlagged
    /\ [q |-> "store", a |-> FALSE] \in upLog.prompts
    /\ up.ret = Bool(FALSE)

\* the value begins with /opt/devkitpro (in any case) and the prefix is
\* neither the whole value nor followed by a separator
PrefixNotAtBoundary(env_path) ==
    /\ StartsWith(Lower(env_path), OptDevkitpro)
    /\ Len(env_path) > Len(OptDevkitpro)
    /\ env_path[Len(OptDevkitpro) + 1] # "/"

\* C26: the /opt/devkitpro rule applies only when the prefix is the whole
\* value or is followed by a path separator: on Windows a value such as
\* /opt/devkitproX is left to the rule for other values that begin with a
\* separator, which resolves it to None.
C26_PrefixRuleOnlyAtBoundary ==
    (/\ PathResolved
     /\ pathIn.os = "nt"
     /\ PrefixNotAtBoundary(ReplaceBackslash(pathIn.raw)))
    => pathOut = None

\* C27: for every unsupported os_filter get_latest_python_download_url
\* returns the hardcoded fallback URL, whether the version came from the
\* metadata API or the scraping path was taken.
C27_UnsupportedFilterYieldsFallback ==
    (/\ UrlResolved
     /\ urlIn.op = "latest"
     /\ urlIn.os_filter \notin {"win64", "win32", "macos"})
    => urlOut = Str(PYTHON_INSTALLER_URL_WIN)

====
